---- MODULE Spec2Model ----
(***************************************************************************)
(* Model of the database-introspection crate: the canonical data model    *)
(* (DatabaseSchema, Table, Column, Index, PrimaryKey, ForeignKey, Enum,   *)
(* Sequence), its name lookups, its derived equality and its derived      *)
(* serde serialization, and the IntrospectionConnector contract.          *)
(***************************************************************************)
EXTENDS Integers, Sequences, FiniteSets, TLC

VARIABLES
    schema,   \* the DatabaseSchema value built by a struct literal, or NotYet
    json,     \* serde_json::to_string(&schema), as a JSON value, or NotYet
    deser,    \* serde_json::from_str(&json): a Result, or NotYet
    found,    \* the last get_table / get_enum / get_sequence call and its result
    lhs,      \* left operand of ==
    rhs,      \* right operand of ==
    eqres,    \* the result of lhs == rhs, or NotYet
    pc,       \* position of an introspect() call
    partial,  \* what an introspect() call has assembled so far
    outcome,  \* what the introspect() call returned, or NotYet
    failed,   \* whether a catalog query or a normalization of this call failed
    norm      \* the last type normalization: its raw string and its result

vars == <<schema, json, deser, found, lhs, rhs, eqres, pc, partial, outcome, failed, norm>>

NotYet == [tag |-> "NotYet"]

\* ---------------------------------------------------------------- bounds

\* Longest sequence drawn for a collection (tables, columns, names, ...).
MaxLen == 2

RECURSIVE SeqsOfLen(_, _)
SeqsOfLen(S, n) ==
    IF n = 0 THEN {<<>>}
    ELSE {Append(s, x) : s \in SeqsOfLen(S, n - 1), x \in S}

SeqsUpTo(S, n) == UNION {SeqsOfLen(S, k) : k \in 0..n}

Range(s) == {s[i] : i \in 1..Len(s)}

\* The iteration orders a HashSet with the members S can have: the
\* duplicate-free sequences holding every member.
Layouts(S) == {s \in SeqsOfLen(S, Cardinality(S)) : Range(s) = S}

\* ------------------------------------------------------ Option and Result

None == [tag |-> "None"]
Some(v) == [tag |-> "Some", value |-> v]

Ok(v) == [tag |-> "Ok", value |-> v]
Err(e) == [tag |-> "Err", error |-> e]

\* ------------------------------------------------------- the data model

ColumnTypeFamily ==
    {"Int", "Float", "Boolean", "String", "DateTime", "Binary", "Json", "Uuid",
     "Geometric", "LogSequenceNumber", "TextSearch", "TransactionId"}

ColumnArity == {"Required", "Nullable", "List"}

ForeignKeyAction == {"NoAction", "Restrict", "Cascade", "SetNull", "SetDefault"}

ColumnType(raw, family) == [raw |-> raw, family |-> family]

Column(name, tpe, arity, default, auto_increment) ==
    [name |-> name, tpe |-> tpe, arity |-> arity, default |-> default,
     auto_increment |-> auto_increment]

Index(name, columns, unique) == [name |-> name, columns |-> columns, unique |-> unique]

PrimaryKey(columns) == [columns |-> columns]

ForeignKey(columns, referenced_table, referenced_columns, on_delete_action) ==
    [columns |-> columns, referenced_table |-> referenced_table,
     referenced_columns |-> referenced_columns, on_delete_action |-> on_delete_action]

Table(name, columns, indices, primary_key, foreign_keys) ==
    [name |-> name, columns |-> columns, indices |-> indices,
     primary_key |-> primary_key, foreign_keys |-> foreign_keys]

\* values is a HashSet<String>: a duplicate-free sequence in the set's
\* (unspecified) iteration order.
Enum(name, values) == [name |-> name, values |-> values]

Sequence(name, initial_value, allocation_size) ==
    [name |-> name, initial_value |-> initial_value, allocation_size |-> allocation_size]

DatabaseSchema(tables, enums, sequences) ==
    [tables |-> tables, enums |-> enums, sequences |-> sequences]

\* ------------------------------------------------------------ the inputs

ColNames == {"a", "b"}
TableNames == {"t1", "t2"}
EnumNames == {"t1", "e1"}
SequenceNames == {"t1", "s1"}
LookupNames == {"t1", "t2", "e1", "s1", "T1"}
EnumMembers == {"option1", "option2"}
U32Samples == {0, 1, 32, 2147483647}

NameLists == SeqsUpTo(ColNames, MaxLen)

BaseCol(n) == Column(n, ColumnType("integer", "Int"), "Required", None, FALSE)

ColumnPool ==
    {BaseCol(n) : n \in ColNames}
    \cup {Column("a", ColumnType("raw", f), ar, None, FALSE) :
            f \in ColumnTypeFamily, ar \in ColumnArity}
    \cup {Column("a", ColumnType("varchar(255)", f), "Nullable", d, ai) :
            f \in {"Int", "String"}, d \in {None, Some("default value"), Some("")},
            ai \in BOOLEAN}

ColumnLists ==
    {<<c>> : c \in ColumnPool} \cup SeqsUpTo({BaseCol(n) : n \in ColNames}, MaxLen)

IndexPool == {Index("i", c, u) : c \in NameLists, u \in BOOLEAN}

IndexLists == {<<>>} \cup {<<i>> : i \in IndexPool}

PrimaryKeys == {None} \cup {Some(PrimaryKey(c)) : c \in NameLists}

ForeignKeyPool ==
    {ForeignKey(c, "t1", rc, "NoAction") : c \in NameLists, rc \in NameLists}
    \cup {ForeignKey(<<"a">>, t, <<"a">>, act) : t \in TableNames, act \in ForeignKeyAction}

ForeignKeyLists == {<<>>} \cup {<<f>> : f \in ForeignKeyPool}

TablePool ==
    {Table(n, cl, <<>>, None, <<>>) : n \in TableNames, cl \in ColumnLists}
    \cup {Table("t1", <<BaseCol("a")>>, il, pk, <<>>) : il \in IndexLists, pk \in PrimaryKeys}
    \cup {Table("t1", <<BaseCol("a")>>, <<>>, None, fl) : fl \in ForeignKeyLists}

SmallTables == {Table(n, <<BaseCol(c)>>, <<>>, None, <<>>) : n \in TableNames, c \in ColNames}

EnumPool == {Enum(n, vs) : n \in EnumNames, vs \in UNION {Layouts(m) : m \in SUBSET EnumMembers}}

SmallEnums == {Enum("t1", <<"option1">>), Enum("e1", <<"option1", "option2">>),
               Enum("e1", <<>>)}

SequencePool == {Sequence(n, iv, al) : n \in SequenceNames, iv \in U32Samples, al \in U32Samples}

SmallSequences == {Sequence("t1", 1, 32), Sequence("s1", 1, 32), Sequence("s1", 0, 1)}

Schemas ==
    {DatabaseSchema(<<t>>, <<>>, <<>>) : t \in TablePool}
    \cup {DatabaseSchema(<<>>, el, <<>>) : el \in SeqsUpTo(EnumPool, MaxLen)}
    \cup {DatabaseSchema(<<>>, <<>>, <<s>>) : s \in SequencePool}
    \cup {DatabaseSchema(tl, el, sl) :
            tl \in SeqsUpTo(SmallTables, MaxLen),
            el \in SeqsUpTo(SmallEnums, 1),
            sl \in SeqsUpTo(SmallSequences, 1)}

\* ------------------------------------------------------------- lookups

\* iter().find(|x| x.name == name): the index of the first element of that
\* name, 0 when there is none.
FirstIndex(s, name) ==
    IF \E i \in 1..Len(s) : s[i].name = name
    THEN CHOOSE i \in 1..Len(s) : s[i].name = name /\ \A j \in 1..(i - 1) : s[j].name # name
    ELSE 0

At(s, i) == IF i = 0 THEN None ELSE Some(s[i])

\* Faulty variant: rfind instead of find
get_table_last(s, name) ==
    IF \E i \in 1..Len(s.tables) : s.tables[i].name = name
    THEN Some(s.tables[CHOOSE i \in 1..Len(s.tables) :
                /\ s.tables[i].name = name
                /\ \A j \in (i + 1)..Len(s.tables) : s.tables[j].name # name])
    ELSE None

\* Faulty variant: the first table, whatever its name
get_table_any(s, name) ==
    IF s.tables = <<>> THEN None ELSE Some(s.tables[1])

get_table(s, name) == At(s.tables, FirstIndex(s.tables, name))

get_enum(s, name) == At(s.enums, FirstIndex(s.enums, name))

get_sequence(s, name) == At(s.sequences, FirstIndex(s.sequences, name))

\* ----------------------------------------------- derived PartialEq (==)

\* Vec<String>'s ==: same length and equal element by element.
StringVecEq(a, b) == Len(a) = Len(b) /\ \A i \in 1..Len(a) : a[i] = b[i]

\* Faulty variant: the values compared in iteration order, as a Vec would be
HashSetEqOrdered(a, b) == StringVecEq(a, b)

\* HashSet's ==: same size and every member of a is contained in b.
HashSetEq(a, b) ==
    Len(a) = Len(b) /\ \A i \in 1..Len(a) : \E j \in 1..Len(b) : b[j] = a[i]

ColumnTypeEq(x, y) == x.raw = y.raw /\ x.family = y.family

ColumnEq(x, y) ==
    /\ x.name = y.name
    /\ ColumnTypeEq(x.tpe, y.tpe)
    /\ x.arity = y.arity
    /\ x.default.tag = y.default.tag
    /\ x.default.tag = "Some" => x.default.value = y.default.value
    /\ x.auto_increment = y.auto_increment

IndexEq(x, y) ==
    /\ x.name = y.name
    /\ StringVecEq(x.columns, y.columns)
    /\ x.unique = y.unique

PrimaryKeyEq(x, y) == StringVecEq(x.columns, y.columns)

ForeignKeyEq(x, y) ==
    /\ StringVecEq(x.columns, y.columns)
    /\ x.referenced_table = y.referenced_table
    /\ StringVecEq(x.referenced_columns, y.referenced_columns)
    /\ x.on_delete_action = y.on_delete_action

TableEq(x, y) ==
    /\ x.name = y.name
    /\ Len(x.columns) = Len(y.columns)
    /\ \A i \in 1..Len(x.columns) : ColumnEq(x.columns[i], y.columns[i])
    /\ Len(x.indices) = Len(y.indices)
    /\ \A i \in 1..Len(x.indices) : IndexEq(x.indices[i], y.indices[i])
    /\ x.primary_key.tag = y.primary_key.tag
    /\ x.primary_key.tag = "Some" => PrimaryKeyEq(x.primary_key.value, y.primary_key.value)
    /\ Len(x.foreign_keys) = Len(y.foreign_keys)
    /\ \A i \in 1..Len(x.foreign_keys) : ForeignKeyEq(x.foreign_keys[i], y.foreign_keys[i])

EnumEq(x, y) == x.name = y.name /\ HashSetEq(x.values, y.values)

SequenceEq(x, y) ==
    /\ x.name = y.name
    /\ x.initial_value = y.initial_value
    /\ x.allocation_size = y.allocation_size

DatabaseSchemaEq(x, y) ==
    /\ Len(x.tables) = Len(y.tables)
    /\ \A i \in 1..Len(x.tables) : TableEq(x.tables[i], y.tables[i])
    /\ Len(x.enums) = Len(y.enums)
    /\ \A i \in 1..Len(x.enums) : EnumEq(x.enums[i], y.enums[i])
    /\ Len(x.sequences) = Len(y.sequences)
    /\ \A i \in 1..Len(x.sequences) : SequenceEq(x.sequences[i], y.sequences[i])

\* ------------------------------------------------ derived Serialize (JSON)

JNull == [t |-> "null"]
JBool(b) == [t |-> "bool", b |-> b]
JNum(n) == [t |-> "num", n |-> n]
JStr(s) == [t |-> "str", s |-> s]
JArr(items) == [t |-> "arr", items |-> items]
\* fields: a sequence of <<key, value>> in declaration order
JObj(fields) == [t |-> "obj", fields |-> fields]

\* A Vec<String>, or a HashSet<String> in its iteration order, as an array.
SerStrings(v) == JArr([i \in 1..Len(v) |-> JStr(v[i])])

\* A unit variant is written as its name.
SerVariant(v) == JStr(v)

SerColumnType(x) ==
    JObj(<< <<"raw", JStr(x.raw)>>, <<"family", SerVariant(x.family)>> >>)

\* Faulty variant: auto_increment is left out when false (skip_serializing_if)
SerColumnSkipFalse(x) ==
    JObj(<< <<"name", JStr(x.name)>>,
            <<"tpe", SerColumnType(x.tpe)>>,
            <<"arity", SerVariant(x.arity)>>,
            <<"default", IF x.default.tag = "None" THEN JNull ELSE JStr(x.default.value)>> >>
         \o (IF x.auto_increment THEN << <<"auto_increment", JBool(TRUE)>> >> ELSE <<>>))

\* None is written as null, Some(v) as v.
SerColumn(x) ==
    JObj(<< <<"name", JStr(x.name)>>,
            <<"tpe", SerColumnType(x.tpe)>>,
            <<"arity", SerVariant(x.arity)>>,
            <<"default", IF x.default.tag = "None" THEN JNull ELSE JStr(x.default.value)>>,
            <<"auto_increment", JBool(x.auto_increment)>> >>)

SerIndex(x) ==
    JObj(<< <<"name", JStr(x.name)>>,
            <<"columns", SerStrings(x.columns)>>,
            <<"unique", JBool(x.unique)>> >>)

SerPrimaryKey(x) == JObj(<< <<"columns", SerStrings(x.columns)>> >>)

SerForeignKey(x) ==
    JObj(<< <<"columns", SerStrings(x.columns)>>,
            <<"referenced_table", JStr(x.referenced_table)>>,
            <<"referenced_columns", SerStrings(x.referenced_columns)>>,
            <<"on_delete_action", SerVariant(x.on_delete_action)>> >>)

SerTable(x) ==
    JObj(<< <<"name", JStr(x.name)>>,
            <<"columns", JArr([i \in 1..Len(x.columns) |-> SerColumn(x.columns[i])])>>,
            <<"indices", JArr([i \in 1..Len(x.indices) |-> SerIndex(x.indices[i])])>>,
            <<"primary_key", IF x.primary_key.tag = "None" THEN JNull
                             ELSE SerPrimaryKey(x.primary_key.value)>>,
            <<"foreign_keys",
              JArr([i \in 1..Len(x.foreign_keys) |-> SerForeignKey(x.foreign_keys[i])])>> >>)

SerEnum(x) ==
    JObj(<< <<"name", JStr(x.name)>>, <<"values", SerStrings(x.values)>> >>)

SerSequence(x) ==
    JObj(<< <<"name", JStr(x.name)>>,
            <<"initial_value", JNum(x.initial_value)>>,
            <<"allocation_size", JNum(x.allocation_size)>> >>)

SerDatabaseSchema(x) ==
    JObj(<< <<"tables", JArr([i \in 1..Len(x.tables) |-> SerTable(x.tables[i])])>>,
            <<"enums", JArr([i \in 1..Len(x.enums) |-> SerEnum(x.enums[i])])>>,
            <<"sequences",
              JArr([i \in 1..Len(x.sequences) |-> SerSequence(x.sequences[i])])>> >>)

\* ---------------------------------------------- derived Deserialize (JSON)

HasField(j, k) == \E i \in 1..Len(j.fields) : j.fields[i][1] = k

Field(j, k) == j.fields[CHOOSE i \in 1..Len(j.fields) : j.fields[i][1] = k][2]

\* A struct is read from a map holding each required key, none of them twice.
WfStruct(j, keys) ==
    /\ j.t = "obj"
    /\ \A k \in keys : HasField(j, k)
    /\ \A a, b \in 1..Len(j.fields) : j.fields[a][1] = j.fields[b][1] => a = b

WfStr(j) == j.t = "str"
WfBool(j) == j.t = "bool"
\* Every number the model can hold is below 2^32: only the sign is checked.
WfU32(j) == j.t = "num" /\ j.n >= 0
WfVariant(j, variants) == j.t = "str" /\ j.s \in variants
WfStrings(j) == j.t = "arr" /\ \A i \in 1..Len(j.items) : WfStr(j.items[i])
\* An Option<String> field may be null, or left out of the map.
WfOptionStrField(j, k) == HasField(j, k) => (Field(j, k).t = "null" \/ WfStr(Field(j, k)))

WfColumnType(j) ==
    /\ WfStruct(j, {"raw", "family"})
    /\ WfStr(Field(j, "raw"))
    /\ WfVariant(Field(j, "family"), ColumnTypeFamily)

WfColumn(j) ==
    /\ WfStruct(j, {"name", "tpe", "arity", "auto_increment"})
    /\ WfStr(Field(j, "name"))
    /\ WfColumnType(Field(j, "tpe"))
    /\ WfVariant(Field(j, "arity"), ColumnArity)
    /\ WfOptionStrField(j, "default")
    /\ WfBool(Field(j, "auto_increment"))

WfIndex(j) ==
    /\ WfStruct(j, {"name", "columns", "unique"})
    /\ WfStr(Field(j, "name"))
    /\ WfStrings(Field(j, "columns"))
    /\ WfBool(Field(j, "unique"))

WfPrimaryKey(j) == WfStruct(j, {"columns"}) /\ WfStrings(Field(j, "columns"))

WfForeignKey(j) ==
    /\ WfStruct(j, {"columns", "referenced_table", "referenced_columns", "on_delete_action"})
    /\ WfStrings(Field(j, "columns"))
    /\ WfStr(Field(j, "referenced_table"))
    /\ WfStrings(Field(j, "referenced_columns"))
    /\ WfVariant(Field(j, "on_delete_action"), ForeignKeyAction)

WfTable(j) ==
    /\ WfStruct(j, {"name", "columns", "indices", "foreign_keys"})
    /\ WfStr(Field(j, "name"))
    /\ Field(j, "columns").t = "arr"
    /\ \A i \in 1..Len(Field(j, "columns").items) : WfColumn(Field(j, "columns").items[i])
    /\ Field(j, "indices").t = "arr"
    /\ \A i \in 1..Len(Field(j, "indices").items) : WfIndex(Field(j, "indices").items[i])
    /\ HasField(j, "primary_key") =>
          (Field(j, "primary_key").t = "null" \/ WfPrimaryKey(Field(j, "primary_key")))
    /\ Field(j, "foreign_keys").t = "arr"
    /\ \A i \in 1..Len(Field(j, "foreign_keys").items) :
          WfForeignKey(Field(j, "foreign_keys").items[i])

WfEnum(j) ==
    /\ WfStruct(j, {"name", "values"})
    /\ WfStr(Field(j, "name"))
    /\ WfStrings(Field(j, "values"))

WfSequence(j) ==
    /\ WfStruct(j, {"name", "initial_value", "allocation_size"})
    /\ WfStr(Field(j, "name"))
    /\ WfU32(Field(j, "initial_value"))
    /\ WfU32(Field(j, "allocation_size"))

WfDatabaseSchema(j) ==
    /\ WfStruct(j, {"tables", "enums", "sequences"})
    /\ Field(j, "tables").t = "arr"
    /\ \A i \in 1..Len(Field(j, "tables").items) : WfTable(Field(j, "tables").items[i])
    /\ Field(j, "enums").t = "arr"
    /\ \A i \in 1..Len(Field(j, "enums").items) : WfEnum(Field(j, "enums").items[i])
    /\ Field(j, "sequences").t = "arr"
    /\ \A i \in 1..Len(Field(j, "sequences").items) :
          WfSequence(Field(j, "sequences").items[i])

DeStr(j) == j.s
DeBool(j) == j.b
DeU32(j) == j.n
DeVariant(j) == j.s
DeStrings(j) == [i \in 1..Len(j.items) |-> DeStr(j.items[i])]
\* null and a missing key both read as None.
DeOptionStrField(j, k) ==
    IF HasField(j, k) /\ Field(j, k).t # "null" THEN Some(DeStr(Field(j, k))) ELSE None

DeColumnType(j) == ColumnType(DeStr(Field(j, "raw")), DeVariant(Field(j, "family")))

DeColumn(j) ==
    Column(DeStr(Field(j, "name")), DeColumnType(Field(j, "tpe")),
           DeVariant(Field(j, "arity")), DeOptionStrField(j, "default"),
           DeBool(Field(j, "auto_increment")))

DeIndex(j) ==
    Index(DeStr(Field(j, "name")), DeStrings(Field(j, "columns")),
          DeBool(Field(j, "unique")))

DePrimaryKey(j) == PrimaryKey(DeStrings(Field(j, "columns")))

DeForeignKey(j) ==
    ForeignKey(DeStrings(Field(j, "columns")), DeStr(Field(j, "referenced_table")),
               DeStrings(Field(j, "referenced_columns")),
               DeVariant(Field(j, "on_delete_action")))

DeTable(j) ==
    Table(DeStr(Field(j, "name")),
          [i \in 1..Len(Field(j, "columns").items) |-> DeColumn(Field(j, "columns").items[i])],
          [i \in 1..Len(Field(j, "indices").items) |-> DeIndex(Field(j, "indices").items[i])],
          IF HasField(j, "primary_key") /\ Field(j, "primary_key").t # "null"
          THEN Some(DePrimaryKey(Field(j, "primary_key"))) ELSE None,
          [i \in 1..Len(Field(j, "foreign_keys").items) |->
              DeForeignKey(Field(j, "foreign_keys").items[i])])

\* The array's elements are inserted into a fresh HashSet, whose iteration
\* order is unspecified: every layout of the members is a possible result.
DeEnum(j) ==
    {Enum(DeStr(Field(j, "name")), l) : l \in Layouts(Range(DeStrings(Field(j, "values"))))}

DeSequence(j) ==
    Sequence(DeStr(Field(j, "name")), DeU32(Field(j, "initial_value")),
             DeU32(Field(j, "allocation_size")))

\* The sequences that take their i-th element from the i-th set.
RECURSIVE SeqProd(_)
SeqProd(ss) ==
    IF ss = <<>> THEN {<<>>}
    ELSE {<<h>> \o t : h \in Head(ss), t \in SeqProd(Tail(ss))}

\* The values from_str can return for a well-formed document.
DeDatabaseSchema(j) ==
    {DatabaseSchema(
        [i \in 1..Len(Field(j, "tables").items) |-> DeTable(Field(j, "tables").items[i])],
        es,
        [i \in 1..Len(Field(j, "sequences").items) |->
            DeSequence(Field(j, "sequences").items[i])]) :
        es \in SeqProd([i \in 1..Len(Field(j, "enums").items) |->
                          DeEnum(Field(j, "enums").items[i])])}

from_str(j) ==
    IF WfDatabaseSchema(j) THEN {Ok(v) : v \in DeDatabaseSchema(j)}
    ELSE {Err([kind |-> "serde_json"])}

to_string(s) == Ok(SerDatabaseSchema(s))

\* ------------------------------------------- the data model's operations

Idle ==
    /\ lhs = NotYet /\ rhs = NotYet /\ eqres = NotYet
    /\ pc = "idle" /\ partial = NotYet /\ outcome = NotYet /\ failed = FALSE
    /\ norm = NotYet

InitModel ==
    /\ schema = NotYet /\ json = NotYet /\ deser = NotYet /\ found = NotYet
    /\ Idle

\* A struct literal: every field is public and is stored as given.
Construct ==
    /\ schema = NotYet
    /\ \E s \in Schemas : schema' = s
    /\ UNCHANGED <<json, deser, found, lhs, rhs, eqres, pc, partial, outcome, failed, norm>>

Serialize ==
    /\ schema # NotYet /\ json = NotYet
    /\ json' = to_string(schema)
    /\ UNCHANGED <<schema, deser, found, lhs, rhs, eqres, pc, partial, outcome, failed, norm>>

Deserialize ==
    /\ json # NotYet /\ deser = NotYet
    /\ json.tag = "Ok"
    /\ \E r \in from_str(json.value) : deser' = r
    /\ UNCHANGED <<schema, json, found, lhs, rhs, eqres, pc, partial, outcome, failed, norm>>

GetTable ==
    /\ schema # NotYet /\ found = NotYet
    /\ \E name \in LookupNames :
         found' = [kind |-> "table", name |-> name, result |-> get_table(schema, name)]
    /\ UNCHANGED <<schema, json, deser, lhs, rhs, eqres, pc, partial, outcome, failed, norm>>

GetEnum ==
    /\ schema # NotYet /\ found = NotYet
    /\ \E name \in LookupNames :
         found' = [kind |-> "enum", name |-> name, result |-> get_enum(schema, name)]
    /\ UNCHANGED <<schema, json, deser, lhs, rhs, eqres, pc, partial, outcome, failed, norm>>

GetSequence ==
    /\ schema # NotYet /\ found = NotYet
    /\ \E name \in LookupNames :
         found' = [kind |-> "sequence", name |-> name,
                   result |-> get_sequence(schema, name)]
    /\ UNCHANGED <<schema, json, deser, lhs, rhs, eqres, pc, partial, outcome, failed, norm>>

Next == Construct \/ Serialize \/ Deserialize \/ GetTable \/ GetEnum \/ GetSequence

Spec == InitModel /\ [][Next]_vars

\* ------------------------------------------------- the connector contract

\* The crate's error type: one variant, without data.
UnknownError == [kind |-> "UnknownError"]

IntrospectionError == {UnknownError}

\* What a failed query_raw returns, converted into the Result's Error.
QueryError == [kind |-> "prisma_query::Error"]

\* The catalog queries of one introspect() call, in the order issued.
Queries == <<"tables", "columns", "indices", "keys", "enums", "sequences">>

RawTypes == {"integer", "INTEGER ", "varchar(255)", "numeric(10,2)", "boolean",
             "frobnicate_type_9000"}

\* The lower-cased, trimmed type name without its parameter list.
BaseKeyword(raw) ==
    CASE raw \in {"integer", "INTEGER "} -> "integer"
      [] raw = "varchar(255)" -> "varchar"
      [] raw = "numeric(10,2)" -> "numeric"
      [] OTHER -> raw

\* The static table of known vendor type names.
KnownTypes ==
    [k \in {"integer", "varchar", "numeric", "boolean"} |->
        CASE k = "integer" -> "Int"
          [] k = "varchar" -> "String"
          [] k = "numeric" -> "Float"
          [] k = "boolean" -> "Boolean"]

arity_of(nullable, is_array) ==
    IF is_array THEN "List" ELSE IF nullable THEN "Nullable" ELSE "Required"

\* The Type Normalizer: the raw string is kept verbatim, the family comes
\* from the table, and a name outside the table is an error.
normalize(raw, nullable, is_array) ==
    IF BaseKeyword(raw) \in DOMAIN KnownTypes
    THEN Ok([tpe |-> ColumnType(raw, KnownTypes[BaseKeyword(raw)]),
             arity |-> arity_of(nullable, is_array)])
    ELSE Err(UnknownError)

ActionSpellings == {"NO ACTION", "RESTRICT", "CASCADE", "SET NULL", "SET DEFAULT", "bogus"}

foreign_key_action(spelling) ==
    CASE spelling = "NO ACTION" -> Ok("NoAction")
      [] spelling = "RESTRICT" -> Ok("Restrict")
      [] spelling = "CASCADE" -> Ok("Cascade")
      [] spelling = "SET NULL" -> Ok("SetNull")
      [] spelling = "SET DEFAULT" -> Ok("SetDefault")
      [] OTHER -> Err(UnknownError)

\* Faulty variant: a failure returns what was assembled so far
abort_with_partial(e, p) == Ok(p.schema)

\* What introspect() returns when an error arises: the error alone.
abort(e, p) == Err(e)

InitIntrospect ==
    /\ schema = NotYet /\ json = NotYet /\ deser = NotYet /\ found = NotYet
    /\ lhs = NotYet /\ rhs = NotYet /\ eqres = NotYet
    /\ pc = "idle" /\ partial = NotYet /\ outcome = NotYet /\ failed = FALSE
    /\ norm = NotYet

DataIdle == UNCHANGED <<schema, json, deser, found, lhs, rhs, eqres>>

Step(q) == pc = q /\ outcome = NotYet

Advance(q, s) ==
    /\ partial' = [schema |-> s, done |-> partial.done \cup {q}]
    /\ pc' = IF q = Queries[Len(Queries)] THEN "return"
             ELSE Queries[(CHOOSE i \in 1..Len(Queries) : Queries[i] = q) + 1]
    /\ UNCHANGED <<outcome, failed>>

Fail(e) ==
    /\ outcome' = abort(e, partial)
    /\ failed' = TRUE
    /\ pc' = "done"
    /\ UNCHANGED partial

Introspect ==
    /\ pc = "idle"
    /\ pc' = Queries[1]
    /\ partial' = [schema |-> DatabaseSchema(<<>>, <<>>, <<>>), done |-> {}]
    /\ UNCHANGED <<outcome, failed, norm>>
    /\ DataIdle

\* query_raw returned an error for the query at hand.
QueryFails ==
    /\ \E i \in 1..Len(Queries) : Step(Queries[i])
    /\ Fail(QueryError)
    /\ UNCHANGED norm
    /\ DataIdle

QueryTables ==
    /\ Step("tables")
    /\ \E names \in {n \in SeqsUpTo(TableNames, MaxLen) : Cardinality(Range(n)) = Len(n)} :
         Advance("tables", [partial.schema EXCEPT !.tables =
             [i \in 1..Len(names) |-> Table(names[i], <<>>, <<>>, None, <<>>)]])
    /\ UNCHANGED norm
    /\ DataIdle

\* Each table's column row is normalized; an unknown type aborts the call.
QueryColumns ==
    /\ Step("columns")
    /\ \E raw \in RawTypes, nullable \in BOOLEAN, is_array \in BOOLEAN :
         LET r == normalize(raw, nullable, is_array) IN
         IF partial.schema.tables = <<>>
         THEN Advance("columns", partial.schema) /\ UNCHANGED norm
         ELSE /\ norm' = [raw |-> raw, result |-> r]
              /\ IF r.tag = "Err" THEN Fail(r.error)
                 ELSE Advance("columns", [partial.schema EXCEPT !.tables =
                        [i \in 1..Len(@) |-> [@[i] EXCEPT !.columns =
                            <<Column("a", r.value.tpe, r.value.arity, None, FALSE)>>]]])
    /\ DataIdle

QueryIndices ==
    /\ Step("indices")
    /\ \E il \in {<<>>} \cup {<<Index("i", <<"a">>, u)>> : u \in BOOLEAN} :
         Advance("indices", [partial.schema EXCEPT !.tables =
             [i \in 1..Len(@) |-> [@[i] EXCEPT !.indices = il]]])
    /\ UNCHANGED norm
    /\ DataIdle

\* Primary and foreign keys; an unrecognized referential action aborts the call.
QueryKeys ==
    /\ Step("keys")
    /\ \E pk \in {None, Some(PrimaryKey(<<"a">>))}, spelling \in ActionSpellings :
         LET act == foreign_key_action(spelling) IN
         IF partial.schema.tables = <<>>
         THEN Advance("keys", partial.schema)
         ELSE IF act.tag = "Err" THEN Fail(act.error)
         ELSE Advance("keys", [partial.schema EXCEPT !.tables =
                [i \in 1..Len(@) |-> [@[i] EXCEPT
                    !.primary_key = pk,
                    !.foreign_keys = <<ForeignKey(<<"a">>, "t1", <<"a">>, act.value)>>]]])
    /\ UNCHANGED norm
    /\ DataIdle

QueryEnums ==
    /\ Step("enums")
    /\ \E el \in SeqsUpTo(SmallEnums, 1) :
         Advance("enums", [partial.schema EXCEPT !.enums = el])
    /\ UNCHANGED norm
    /\ DataIdle

QuerySequences ==
    /\ Step("sequences")
    /\ \E sl \in SeqsUpTo(SmallSequences, 1) :
         Advance("sequences", [partial.schema EXCEPT !.sequences = sl])
    /\ UNCHANGED norm
    /\ DataIdle

Return ==
    /\ pc = "return"
    /\ outcome' = Ok(partial.schema)
    /\ pc' = "done"
    /\ UNCHANGED <<partial, failed, norm>>
    /\ DataIdle

NextIntrospect ==
    \/ Introspect \/ QueryFails \/ QueryTables \/ QueryColumns \/ QueryIndices
    \/ QueryKeys \/ QueryEnums \/ QuerySequences \/ Return

SpecIntrospect == InitIntrospect /\ [][NextIntrospect]_vars

\* --------------------------------------------------- the == operator

EqTables == {Table("t1", cl, <<>>, None, <<>>) : cl \in SeqsUpTo({BaseCol(n) : n \in ColNames}, MaxLen)}

EqOperands ==
    {[kind |-> "Enum", v |-> e] : e \in EnumPool}
    \cup {[kind |-> "Index", v |-> i] : i \in IndexPool}
    \cup {[kind |-> "PrimaryKey", v |-> PrimaryKey(c)] : c \in NameLists}
    \cup {[kind |-> "ForeignKey", v |-> f] : f \in ForeignKeyPool}
    \cup {[kind |-> "Table", v |-> t] : t \in EqTables}

eq(x, y) ==
    CASE x.kind = "Enum" -> EnumEq(x.v, y.v)
      [] x.kind = "Index" -> IndexEq(x.v, y.v)
      [] x.kind = "PrimaryKey" -> PrimaryKeyEq(x.v, y.v)
      [] x.kind = "ForeignKey" -> ForeignKeyEq(x.v, y.v)
      [] x.kind = "Table" -> TableEq(x.v, y.v)

InitEq ==
    /\ schema = NotYet /\ json = NotYet /\ deser = NotYet /\ found = NotYet
    /\ pc = "idle" /\ partial = NotYet /\ outcome = NotYet /\ failed = FALSE
    /\ norm = NotYet
    /\ eqres = NotYet
    /\ lhs \in EqOperands
    /\ rhs \in {y \in EqOperands : y.kind = lhs.kind}

Compare ==
    /\ eqres = NotYet
    /\ eqres' = [value |-> eq(lhs, rhs)]
    /\ UNCHANGED <<schema, json, deser, found, lhs, rhs, pc, partial, outcome, failed, norm>>

NextEq == Compare

SpecEq == InitEq /\ [][NextEq]_vars

\* ------------------------------------------------------------- properties

\* The DatabaseSchema values that exist in a state.
Existing ==
    (IF schema = NotYet THEN {} ELSE {schema})
    \cup (IF deser.tag = "Ok" THEN {deser.value} ELSE {})

TablesOf(s) == Range(s.tables)

ColumnNamesOf(t) == {t.columns[i].name : i \in 1..Len(t.columns)}

\* C1: deserializing the serialized form of any DatabaseSchema succeeds and
\* yields a value equal (==) to the original.
C1_RoundTrip ==
    deser # NotYet => deser.tag = "Ok" /\ DatabaseSchemaEq(deser.value, schema)

\* C1 case: a round trip of a schema with an enum of two members, a table
\* without primary key and a column without default, whose deserialized
\* HashSet iterates in another order than the original.
C1_Witness ==
    /\ deser.tag = "Ok"
    /\ Len(schema.enums) >= 1 /\ Len(schema.tables) >= 1
    /\ Len(schema.enums[1].values) = 2
    /\ deser.value.enums[1].values # schema.enums[1].values
    /\ schema.tables[1].primary_key = None
    /\ schema.tables[1].columns[1].default = None

Collection(kind) ==
    CASE kind = "table" -> schema.tables
      [] kind = "enum" -> schema.enums
      [] kind = "sequence" -> schema.sequences

Named(coll, name) == {i \in 1..Len(coll) : coll[i].name = name}

\* C2: a lookup returns Some element of its collection whose name is exactly
\* the name asked for when there is one, and None when there is none; it
\* always returns an Option.
C2_Lookup ==
    found # NotYet =>
        LET coll == Collection(found.kind) IN
        /\ found.result.tag \in {"Some", "None"}
        /\ Named(coll, found.name) # {} =>
              /\ found.result.tag = "Some"
              /\ found.result.value.name = found.name
              /\ \E i \in 1..Len(coll) : coll[i] = found.result.value
        /\ Named(coll, found.name) = {} => found.result = None

\* C2 case: get_table found a table that is not the first of the schema.
C2_Witness ==
    /\ found # NotYet /\ found.kind = "table" /\ found.result.tag = "Some"
    /\ Len(schema.tables) = 2
    /\ schema.tables[1].name # found.name

\* C10: among several elements of the same name a lookup returns the first
\* in sequence order, and it searches its own collection only.
C10_FirstMatchOwnCollection ==
    found # NotYet =>
        LET coll == Collection(found.kind)
            hits == Named(coll, found.name)
        IN  /\ hits # {} =>
                  found.result = Some(coll[CHOOSE i \in hits : \A j \in hits : i <= j])
            /\ hits = {} => found.result = None

\* C10 case: two different tables of the same name, and that name looked up.
C10_Witness ==
    /\ found # NotYet /\ found.kind = "table"
    /\ Len(schema.tables) = 2
    /\ schema.tables[1].name = found.name /\ schema.tables[2].name = found.name
    /\ schema.tables[1] # schema.tables[2]

\* C3: in every Table that exists, each column named by its primary key, by
\* one of its indices or by one of its foreign keys is one of its columns.
C3_ReferencedColumnsExist ==
    \A s \in Existing : \A t \in TablesOf(s) :
        /\ t.primary_key.tag = "Some" =>
              Range(t.primary_key.value.columns) \subseteq ColumnNamesOf(t)
        /\ \A i \in 1..Len(t.indices) :
              Range(t.indices[i].columns) \subseteq ColumnNamesOf(t)
        /\ \A i \in 1..Len(t.foreign_keys) :
              Range(t.foreign_keys[i].columns) \subseteq ColumnNamesOf(t)

\* C4: every ForeignKey that exists has as many columns as referenced columns.
C4_ForeignKeyArity ==
    \A s \in Existing : \A t \in TablesOf(s) : \A i \in 1..Len(t.foreign_keys) :
        Len(t.foreign_keys[i].columns) = Len(t.foreign_keys[i].referenced_columns)

UniqueNames(coll) == \A i, j \in 1..Len(coll) : coll[i].name = coll[j].name => i = j

\* C5: in every DatabaseSchema table names, enum names and sequence names
\* are each unique.
C5_UniqueNames ==
    \A s \in Existing :
        UniqueNames(s.tables) /\ UniqueNames(s.enums) /\ UniqueNames(s.sequences)

\* C6: in every Column auto_increment implies the family Int.
C6_AutoIncrementIsInt ==
    \A s \in Existing : \A t \in TablesOf(s) : \A i \in 1..Len(t.columns) :
        t.columns[i].auto_increment => t.columns[i].tpe.family = "Int"

IsPermutation(a, b) ==
    /\ Len(a) = Len(b)
    /\ \A x \in Range(a) \cup Range(b) :
          Cardinality({i \in 1..Len(a) : a[i] = x}) = Cardinality({i \in 1..Len(b) : b[i] = x})

Reordered(a, b) == a # b /\ IsPermutation(a, b)

\* C9: two Enums of the same name and the same members are equal whatever
\* order the members are held in; two Tables, Indexes, PrimaryKeys or
\* ForeignKeys holding the same columns in a different order are not equal.
C9_EqualitySetVsSequence ==
    eqres # NotYet =>
        /\ (/\ lhs.kind = "Enum"
            /\ lhs.v.name = rhs.v.name
            /\ Range(lhs.v.values) = Range(rhs.v.values)) => eqres.value = TRUE
        /\ (/\ lhs.kind \in {"Index", "PrimaryKey", "ForeignKey", "Table"}
            /\ Reordered(lhs.v.columns, rhs.v.columns)) => eqres.value = FALSE
        /\ (/\ lhs.kind = "ForeignKey"
            /\ Reordered(lhs.v.referenced_columns, rhs.v.referenced_columns)) =>
              eqres.value = FALSE

\* C9 case: two Enums holding the same two members in different orders
\* compared equal.
C9_Witness ==
    /\ eqres # NotYet /\ lhs.kind = "Enum"
    /\ Len(lhs.v.values) = 2
    /\ lhs.v.values # rhs.v.values
    /\ Range(lhs.v.values) = Range(rhs.v.values)
    /\ lhs.v.name = rhs.v.name
    /\ eqres.value = TRUE

\* C7: an introspect() call returns either a complete DatabaseSchema or one
\* failure; when a catalog query failed or an error arose during the call it
\* returns the failure, and no DatabaseSchema, partial or not, with it.
C7_AllOrNothing ==
    /\ pc # "done" => outcome = NotYet
    /\ pc = "done" =>
          /\ outcome.tag \in {"Ok", "Err"}
          /\ failed => outcome.tag = "Err" /\ DOMAIN outcome = {"tag", "error"}
          /\ outcome.tag = "Ok" =>
                /\ ~failed
                /\ partial.done = Range(Queries)
                /\ outcome.value = partial.schema

\* C7 case: the call failed after it had assembled tables with columns, and
\* returned the failure.
C7_Witness ==
    /\ pc = "done" /\ failed
    /\ partial.schema.tables # <<>>
    /\ "columns" \in partial.done
    /\ outcome.tag = "Err"

====
